---------------------------- MODULE Spec2Model ----------------------------
(***************************************************************************)
(* EDXRaster: the tiled, multi-sample, parallel software rasterizer.       *)
(*                                                                         *)
(* The model follows Renderer.cpp (Initialize, Resize, SetMSAAMode,        *)
(* RenderMesh and the stages it calls) and Shader.h (CoverageMask, the     *)
(* albedo pixel shader).  FrameBuffer, Tile, RasterTriangle, Clipper and   *)
(* Rasterizer are declared in headers that are not part of the sources;    *)
(* they are modelled from the design document and marked so in the map.    *)
(*                                                                         *)
(* Numbers: coordinates are integers in 1/16 pixel (4 sub-pixel bits), as  *)
(* in the fixed-point RasterTriangle.  Floating point is not modelled: the *)
(* model-view-projection matrix is a translation, the raster matrix maps   *)
(* the clip volume onto a viewport of whole pixels, w = 1 for every        *)
(* vertex, and the three vertices of a triangle have the same depth.       *)
(***************************************************************************)
EXTENDS Integers, Sequences, FiniteSets, TLC

(***************************************************************************)
(* Bounds of the model.                                                    *)
(***************************************************************************)
\* Number of workers (mNumCores = GetNumberOfCores() in the program).
NumCores == 2
\* log2 of the tile edge in pixels (the design assumes 6; the model scales
\* the tile down so that a screen of a few pixels has several tiles).
TileSizeLog2 == 2
\* RenderMesh calls per behaviour.
MaxFrames == 2

(***************************************************************************)
(* Program constants.                                                      *)
(***************************************************************************)
\* Sub-pixel bits of the fixed-point coordinates ("SIZE_LOG_2 + 4").
SubPixelBits == 4

TileSize == 2 ^ TileSizeLog2
Shift == TileSizeLog2 + SubPixelBits
SubPixel == 2 ^ SubPixelBits
Cores == 0 .. NumCores - 1

Min(a, b) == IF a < b THEN a ELSE b
Max(a, b) == IF a > b THEN a ELSE b
\* x >> n on a signed int (arithmetic shift) and x << n.
ShiftRight(x, n) == x \div (2 ^ n)
ShiftLeft(x, n) == x * (2 ^ n)
Vector2i(x, y) == [x |-> x, y |-> y]

RECURSIVE SeqSum(_)
SeqSum(s) == IF s = <<>> THEN 0 ELSE Head(s) + SeqSum(Tail(s))

(***************************************************************************)
(* CoverageMask (Shader.h): int bits[4], bit i lives in word i >> 5 at     *)
(* position i & 31.  A word is modelled as the set of its set positions.   *)
(***************************************************************************)
EmptyMask == [w \in 0 .. 3 |-> {}]
SetBit(mask, i) == [mask EXCEPT ![i \div 32] = @ \cup {i % 32}]
\* bits[id] & (1 << shift): the bit in place, as a signed 32-bit int.
GetBit(mask, i) ==
    IF (i % 32) \in mask[i \div 32]
    THEN (IF i % 32 = 31 THEN -2147483647 - 1 ELSE 2 ^ (i % 32))
    ELSE 0
Merge(mask) == mask[0] \cup mask[1] \cup mask[2] \cup mask[3]
\* The mask after SetBit(i) for every i of a set.
SetBits(mask, is) ==
    [w \in 0 .. 3 |-> mask[w] \cup {i % 32 : i \in {k \in is : k \div 32 = w}}]

(***************************************************************************)
(* FrameBuffer (header not in the sources; from the design document).      *)
(***************************************************************************)
ClearColor == <<0, 0, 0>>
\* The depth every sample is cleared to ("+infinity").
ClearDepth == 1000
SampleCountOf(level) == 2 ^ level
\* Sample positions inside a pixel, in 1/16 pixel: the DirectX standard
\* patterns for 1 and 2 samples.  The design gives no pattern for an
\* unsupported count; the model then puts every sample at the pixel centre.
SamplePos(n, s) ==
    IF n = 2 THEN (IF s = 0 THEN Vector2i(12, 12) ELSE Vector2i(4, 4))
    ELSE Vector2i(8, 8)
Pixels(w, h) == 0 .. w * h - 1
FrameBufferInit(w, h, level) ==
    [width |-> w, height |-> h, sampleCount |-> SampleCountOf(level),
     sampleColor |-> [i \in Pixels(w, h) |->
                        [s \in 0 .. SampleCountOf(level) - 1 |-> ClearColor]],
     sampleDepth |-> [i \in Pixels(w, h) |->
                        [s \in 0 .. SampleCountOf(level) - 1 |-> ClearDepth]],
     colorBuffer |-> [i \in Pixels(w, h) |-> ClearColor]]
FrameBufferClear(fb) ==
    [fb EXCEPT !.sampleColor = [i \in DOMAIN @ |-> [s \in DOMAIN @[i] |-> ClearColor]],
               !.sampleDepth = [i \in DOMAIN @ |-> [s \in DOMAIN @[i] |-> ClearDepth]]]
PixelIndex(fb, x, y) == y * fb.width + x
InFrame(fb, x, y) == x >= 0 /\ x < fb.width /\ y >= 0 /\ y < fb.height
\* Box filter over the samples of a pixel, per channel, rounded to nearest.
ResolvePixel(samples, n) ==
    [ch \in 1 .. 3 |->
        (SeqSum([k \in 1 .. n |-> samples[k - 1][ch]]) + n \div 2) \div n]
FrameBufferResolve(fb) ==
    [fb EXCEPT !.colorBuffer =
        [i \in DOMAIN @ |-> ResolvePixel(fb.sampleColor[i], fb.sampleCount)]]

(***************************************************************************)
(* Tiles (Renderer::Initialize / Resize build the grid).                   *)
(***************************************************************************)
TileDimOf(iScreenSize) == ShiftRight(iScreenSize + TileSize - 1, TileSizeLog2)
NewTile(minCoord, maxCoord, tId) ==
    [minCoord |-> minCoord, maxCoord |-> maxCoord, tileId |-> tId,
     triangleRefs |-> [c \in Cores |-> <<>>], fragmentBuf |-> <<>>]
\* for i in 0, SIZE, .. < height: for j in 0, SIZE, .. < width: mTiles.Add
BuildTiles(iScreenWidth, iScreenHeight) ==
    LET nx == TileDimOf(iScreenWidth)
        ny == TileDimOf(iScreenHeight)
    IN [k \in 1 .. nx * ny |->
          LET j == ((k - 1) % nx) * TileSize
              i == ((k - 1) \div nx) * TileSize
          IN NewTile(Vector2i(j, i),
                     Vector2i(Min(j + TileSize, iScreenWidth),
                              Min(i + TileSize, iScreenHeight)),
                     k - 1)]


(***************************************************************************)
(* Vertex shader (Shader.h, DefaultVertexShader::Execute): projectedPos is *)
(* the position transformed by ModelViewProj (here a translation); the     *)
(* model-space attributes pass through.  invW is 0 until Clipping sets it. *)
(***************************************************************************)
TransformPoint(pos, mvp) == [x |-> pos.x + mvp.x, y |-> pos.y + mvp.y, z |-> pos.z]
Execute(vIn, mvp) ==
    [projectedPos |-> TransformPoint(vIn, mvp), invW |-> 0, position |-> vIn]

(***************************************************************************)
(* RasterTriangle (header not in the sources; from the design document):   *)
(* EdgeFunc_i(p) = B_i (p.x - v_i.x) + C_i (p.y - v_i.y), the top-left     *)
(* tie-breakers, and the reject and accept corner codes of each edge: code *)
(* c stands for the corner offset (c % 2, c / 2).  As the design document  *)
(* has it, the reject corner is the block corner where B dx + C dy is      *)
(* most negative and the accept corner the one where it is most positive.  *)
(***************************************************************************)
RejectCornerOf(B, C) == (IF B < 0 THEN 1 ELSE 0) + 2 * (IF C < 0 THEN 1 ELSE 0)
AcceptCornerOf(B, C) == (IF B > 0 THEN 1 ELSE 0) + 2 * (IF C > 0 THEN 1 ELSE 0)
TieBreakerOf(B, C) == IF B > 0 \/ (B = 0 /\ C > 0) THEN 0 ELSE -1
SetupTriangle(p0, p1, p2, vIds, texId, depth) ==
    LET B0 == p1.y - p0.y   C0 == p0.x - p1.x
        B1 == p2.y - p1.y   C1 == p1.x - p2.x
        B2 == p0.y - p2.y   C2 == p2.x - p0.x
    IN [v0 |-> p0, v1 |-> p1, v2 |-> p2,
        B0 |-> B0, C0 |-> C0, B1 |-> B1, C1 |-> C1, B2 |-> B2, C2 |-> C2,
        tie0 |-> TieBreakerOf(B0, C0), tie1 |-> TieBreakerOf(B1, C1),
        tie2 |-> TieBreakerOf(B2, C2),
        rejectCorner0 |-> RejectCornerOf(B0, C0), acceptCorner0 |-> AcceptCornerOf(B0, C0),
        rejectCorner1 |-> RejectCornerOf(B1, C1), acceptCorner1 |-> AcceptCornerOf(B1, C1),
        rejectCorner2 |-> RejectCornerOf(B2, C2), acceptCorner2 |-> AcceptCornerOf(B2, C2),
        vId0 |-> vIds[1], vId1 |-> vIds[2], vId2 |-> vIds[3],
        textureId |-> texId, z |-> depth]
EdgeFunc0(tri, p) == tri.B0 * (p.x - tri.v0.x) + tri.C0 * (p.y - tri.v0.y)
EdgeFunc1(tri, p) == tri.B1 * (p.x - tri.v1.x) + tri.C1 * (p.y - tri.v1.y)
EdgeFunc2(tri, p) == tri.B2 * (p.x - tri.v2.x) + tri.C2 * (p.y - tri.v2.y)
\* Twice the signed area, positive for a triangle whose interior has all
\* three edge functions positive.
TriArea2(p0, p1, p2) ==
    (p1.y - p0.y) * (p2.x - p0.x) - (p1.x - p0.x) * (p2.y - p0.y)

(***************************************************************************)
(* Clipper::Clip (not in the sources; from the design document).  The      *)
(* triangles are dealt to the workers in contiguous ranges.  A triangle    *)
(* whose vertices are all outside one clip plane is rejected, a triangle   *)
(* inside all planes is emitted unchanged, a back-facing or degenerate     *)
(* triangle is dropped.  The clip volume is the viewport of the raster     *)
(* matrix, in fixed point: 0 <= x <= 16 viewport.x, 0 <= y <= 16           *)
(* viewport.y.  Meshes with a triangle that straddles a clip plane are     *)
(* outside the model (Sutherland-Hodgman needs real arithmetic).           *)
(***************************************************************************)
ClipCode(p, viewport) ==
    {b \in 0 .. 3 : \/ b = 0 /\ p.x < 0
                    \/ b = 1 /\ p.x > viewport.x * SubPixel
                    \/ b = 2 /\ p.y < 0
                    \/ b = 3 /\ p.y > viewport.y * SubPixel}
ChunkSize(nTris) == (nTris + NumCores - 1) \div NumCores
TrianglesOfCore(nTris, coreId) ==
    LET lo == coreId * ChunkSize(nTris)
        hi == Min(nTris, lo + ChunkSize(nTris))
    IN IF lo >= hi THEN <<>> ELSE [k \in 1 .. hi - lo |-> lo + k]
RECURSIVE ClipRange(_, _, _, _, _)
\* The raster triangles one worker emits for its range of source triangles.
ClipRange(projBuf, indexBuf, texIdBuf, viewport, range) ==
    IF range = <<>> THEN <<>>
    ELSE LET t == Head(range)
             ids == indexBuf[t]
             p0 == projBuf[ids[1] + 1].projectedPos
             p1 == projBuf[ids[2] + 1].projectedPos
             p2 == projBuf[ids[3] + 1].projectedPos
             rest == ClipRange(projBuf, indexBuf, texIdBuf, viewport, Tail(range))
             rejected == (ClipCode(p0, viewport) \cap ClipCode(p1, viewport)
                          \cap ClipCode(p2, viewport)) # {}
         IN IF rejected \/ TriArea2(p0, p1, p2) <= 0 THEN rest
            ELSE <<SetupTriangle(Vector2i(p0.x, p0.y), Vector2i(p1.x, p1.y),
                                 Vector2i(p2.x, p2.y), ids, texIdBuf[t], p0.z)>>
                 \o rest
\* A trivially accepted triangle references the source vertices: each worker's
\* vertex buffer holds the projected vertices its triangles use.
ClipVertices(projBuf, coreId, nTris) ==
    IF TrianglesOfCore(nTris, coreId) = <<>> THEN <<>> ELSE projBuf

(***************************************************************************)
(* Binning (Renderer::TiledRasterization, the loop over the cores).        *)
(***************************************************************************)
TriangleRef(triId, acceptEdge0, acceptEdge1, acceptEdge2, big) ==
    [triId |-> triId, acceptEdge0 |-> acceptEdge0, acceptEdge1 |-> acceptEdge1,
     acceptEdge2 |-> acceptEdge2, big |-> big,
     trivialAccept |-> acceptEdge0 /\ acceptEdge1 /\ acceptEdge2]
SmallTriangleRef(triId) == TriangleRef(triId, FALSE, FALSE, FALSE, FALSE)
Min3(a, b, c) == Min(a, Min(b, c))
Max3(a, b, c) == Max(a, Max(b, c))
\* lines 168-171: the tile range of the triangle's bounding box, clamped.
\* (BinMaxXUnclamped is line 169 without the Math::Min: a variant for testing
\* how the properties below depend on the clamp.)
BinMinX(tri) == Max(0, ShiftRight(Min3(tri.v0.x, tri.v1.x, tri.v2.x), Shift))
BinMaxXUnclamped(tri, dim) == ShiftRight(Max3(tri.v0.x, tri.v1.x, tri.v2.x), Shift)
BinMaxX(tri, dim) == Min(dim.x - 1, ShiftRight(Max3(tri.v0.x, tri.v1.x, tri.v2.x), Shift))
BinMinY(tri) == Max(0, ShiftRight(Min3(tri.v0.y, tri.v1.y, tri.v2.y), Shift))
BinMaxY(tri, dim) == Min(dim.y - 1, ShiftRight(Max3(tri.v0.y, tri.v1.y, tri.v2.y), Shift))
\* line 173 (BinIsSmallWide: a variant whose small path reaches one tile
\* further).
BinIsSmallWide(tri, dim) ==
    BinMaxX(tri, dim) - BinMinX(tri) < 3 /\ BinMaxY(tri, dim) - BinMinY(tri) < 3
BinIsSmall(tri, dim) ==
    BinMaxX(tri, dim) - BinMinX(tri) < 2 /\ BinMaxY(tri, dim) - BinMinY(tri) < 2
\* The corner of tile (x, y) that a corner code names, in fixed point.
TileCorner(x, y, code) ==
    Vector2i(ShiftLeft(x + (code % 2), Shift), ShiftLeft(y + (code \div 2), Shift))
\* line 203: the tile is skipped (BinRejectsNever: a variant without the
\* reject test, so that the accept corners alone decide the accept bits).
BinRejectsNever(tri, x, y) == FALSE
BinRejects(tri, x, y) ==
    \/ EdgeFunc0(tri, TileCorner(x, y, tri.rejectCorner0)) < 0
    \/ EdgeFunc1(tri, TileCorner(x, y, tri.rejectCorner1)) < 0
    \/ EdgeFunc2(tri, TileCorner(x, y, tri.rejectCorner2)) < 0
BigTriangleRef(tri, i, x, y) ==
    TriangleRef(i,
                EdgeFunc0(tri, TileCorner(x, y, tri.acceptCorner0)) >= 0,
                EdgeFunc1(tri, TileCorner(x, y, tri.acceptCorner1)) >= 0,
                EdgeFunc2(tri, TileCorner(x, y, tri.acceptCorner2)) >= 0,
                TRUE)
\* The index into mTiles the binner writes for tile (x, y).
BinTileIndex(x, y, dim) == y * dim.x + x
\* Which of a tile's per-worker lists worker coreId appends to
\* (RefListShared: a variant with one list for all workers).
RefListShared(coreId) == 0
RefListOf(coreId) == coreId
\* Array::Add on a reference list (AddRefFront: a variant that inserts at the
\* front).
AddRefFront(list, ref) == <<ref>> \o list
AddRef(list, ref) == Append(list, ref)
\* The writes of one iteration of the triangle loop: tile index and reference.
BinWrites(tri, i, dim) ==
    LET box == (BinMinX(tri) .. BinMaxX(tri, dim)) \X (BinMinY(tri) .. BinMaxY(tri, dim))
    IN IF BinIsSmall(tri, dim)
       THEN {[idx |-> BinTileIndex(b[1], b[2], dim), ref |-> SmallTriangleRef(i)] : b \in box}
       ELSE {[idx |-> BinTileIndex(b[1], b[2], dim), ref |-> BigTriangleRef(tri, i, b[1], b[2])] :
                b \in {c \in box : ~BinRejects(tri, c[1], c[2])}}
\* mTiles after worker coreId has binned triangle i of its buffer.  A write
\* at an index outside mTiles is left out here and recorded as a fault.
BinTriangle(tiles, tri, i, coreId, dim) ==
    [k \in DOMAIN tiles |->
        LET w == {b \in BinWrites(tri, i, dim) : b.idx = k - 1}
        IN IF w = {} THEN tiles[k]
           ELSE [tiles[k] EXCEPT !.triangleRefs[RefListOf(coreId)] =
                    AddRef(@, (CHOOSE b \in w : TRUE).ref)]]
BinOutOfRange(tiles, tri, i, dim) ==
    \E b \in BinWrites(tri, i, dim) : b.idx < 0 \/ b.idx >= Len(tiles)


(***************************************************************************)
(* Rasterizer (header not in the sources; from the design document).  A    *)
(* quad is a 2x2 pixel block; pixel p of the quad at (x, y) is             *)
(* (x + p % 2, y + p / 2): TL, TR, BL, BR.                                 *)
(***************************************************************************)
QuadPixelOffset(p) == Vector2i(p % 2, p \div 2)
\* The sample's position in fixed point.
SamplePoint(px, py, n, s) ==
    Vector2i(px * SubPixel + SamplePos(n, s).x, py * SubPixel + SamplePos(n, s).y)
\* The edge tests of fine rasterization; an edge whose accept bit is set in
\* the reference is not tested.
InsideEdges(tri, triRef, pos) ==
    /\ triRef.acceptEdge0 \/ EdgeFunc0(tri, pos) + tri.tie0 >= 0
    /\ triRef.acceptEdge1 \/ EdgeFunc1(tri, pos) + tri.tie1 >= 0
    /\ triRef.acceptEdge2 \/ EdgeFunc2(tri, pos) + tri.tie2 >= 0
\* The quads of a tile, row by row.
QuadsOf(tile) ==
    LET nx == (tile.maxCoord.x - tile.minCoord.x + 1) \div 2
        ny == (tile.maxCoord.y - tile.minCoord.y + 1) \div 2
    IN [k \in 1 .. nx * ny |->
          Vector2i(tile.minCoord.x + 2 * ((k - 1) % nx),
                   tile.minCoord.y + 2 * ((k - 1) \div nx))]
\* Sample s of pixel p of the quad at q is covered and passes the depth test
\* (less or equal).
Covered(depth, fb, tri, triRef, q, fullCoverage, s, p) ==
    LET px == q.x + QuadPixelOffset(p).x
        py == q.y + QuadPixelOffset(p).y
    IN /\ InFrame(fb, px, py)
       /\ fullCoverage
          \/ InsideEdges(tri, triRef, SamplePoint(px, py, fb.sampleCount, s))
       /\ tri.z <= depth[PixelIndex(fb, px, py)][s]
\* The depth buffer after the covered samples of pixel p have stored z.
StoreDepth(depth, fb, q, p, bits, z) ==
    LET px == q.x + QuadPixelOffset(p).x
        py == q.y + QuadPixelOffset(p).y
    IN IF InFrame(fb, px, py)
       THEN [depth EXCEPT ![PixelIndex(fb, px, py)] =
                [s \in DOMAIN @ |-> IF (s * 4 + p) \in bits THEN z ELSE @[s]]]
       ELSE depth
\* One quad of one triangle: coverage, depth test, and the fragment appended
\* to the tile if any sample survives.  st holds the tile's fragment buffer
\* and the depth buffer; bit s * 4 + p of the mask is sample s of pixel p.
RasterQuad(st, fb, tileId, tri, triRef, coreId, q, fullCoverage) ==
    LET bits == {b \in 0 .. 4 * fb.sampleCount - 1 :
                    Covered(st.depth, fb, tri, triRef, q, fullCoverage, b \div 4, b % 4)}
        frag == [x |-> q.x, y |-> q.y,
                 coverageMask |-> SetBits(EmptyMask, bits),
                 coreId |-> coreId, triId |-> triRef.triId,
                 vId0 |-> tri.vId0, vId1 |-> tri.vId1, vId2 |-> tri.vId2,
                 textureId |-> tri.textureId, tileId |-> tileId,
                 intraTileIdx |-> Len(st.frags)]
    IN IF bits = {} THEN st
       ELSE [frags |-> Append(st.frags, frag),
             depth |-> StoreDepth(StoreDepth(StoreDepth(StoreDepth(
                          st.depth, fb, q, 0, bits, tri.z), fb, q, 1, bits, tri.z),
                          fb, q, 2, bits, tri.z), fb, q, 3, bits, tri.z)]
RECURSIVE RasterQuads(_, _, _, _, _, _, _, _)
RasterQuads(st, fb, tile, tri, triRef, coreId, quads, fullCoverage) ==
    IF quads = <<>> THEN st
    ELSE RasterQuads(RasterQuad(st, fb, tile.tileId, tri, triRef, coreId, Head(quads),
                                fullCoverage),
                     fb, tile, tri, triRef, coreId, Tail(quads), fullCoverage)
TrivialAcceptTriangle(st, fb, tile, tri, triRef, coreId) ==
    RasterQuads(st, fb, tile, tri, triRef, coreId, QuadsOf(tile), TRUE)
FineRasterize(st, fb, tile, tri, triRef, coreId) ==
    RasterQuads(st, fb, tile, tri, triRef, coreId, QuadsOf(tile), FALSE)
\* Coarse rasterization prunes the blocks of the tile that an edge rejects
\* and rasterizes the others finely; it emits what FineRasterize emits.
CoarseRasterize(st, fb, tile, tri, triRef, coreId) ==
    FineRasterize(st, fb, tile, tri, triRef, coreId)

(***************************************************************************)
(* Renderer::RasterizeTile: for each core, for each reference of the       *)
(* tile's list of that core, rasterize the triangle the reference names.   *)
(***************************************************************************)
RasterizeRef(st, fb, tile, triBufs, coreId, triRef, hierarchical) ==
    LET tri == triBufs[coreId][triRef.triId + 1]
    IN IF triRef.trivialAccept
       THEN TrivialAcceptTriangle(st, fb, tile, tri, triRef, coreId)
       ELSE IF hierarchical /\ triRef.big
            THEN CoarseRasterize(st, fb, tile, tri, triRef, coreId)
            ELSE FineRasterize(st, fb, tile, tri, triRef, coreId)
\* The references of a tile in the order RasterizeTile visits them.
RECURSIVE VisitOrder(_, _)
VisitOrder(tile, coreId) ==
    IF coreId >= NumCores THEN <<>>
    ELSE [j \in 1 .. Len(tile.triangleRefs[coreId]) |->
             [coreId |-> coreId, ref |-> tile.triangleRefs[coreId][j]]]
         \o VisitOrder(tile, coreId + 1)
RECURSIVE RasterizeVisits(_, _, _, _, _, _)
RasterizeVisits(st, fb, tile, triBufs, visits, hierarchical) ==
    IF visits = <<>> THEN st
    ELSE RasterizeVisits(
            RasterizeRef(st, fb, tile, triBufs, Head(visits).coreId, Head(visits).ref,
                         hierarchical),
            fb, tile, triBufs, Tail(visits), hierarchical)
RasterizeTile(tile, fb, triBufs, hierarchical) ==
    RasterizeVisits([frags |-> tile.fragmentBuf, depth |-> fb.sampleDepth],
                    fb, tile, triBufs, VisitOrder(tile, 0), hierarchical)

(***************************************************************************)
(* Pixel shading (Shader.h, QuadLambertianAlbedoPixelShader::Shade, and    *)
(* Renderer::FragmentProcessing).  A texture slot is a base colour; its    *)
(* texel at a pixel varies with the pixel's parity, so the four pixels of  *)
(* a quad get four different colours.  The diffuse factor is left out.     *)
(***************************************************************************)
Sample(slot, px, py) ==
    LET c == slot + (px % 2) + 2 * (py % 2) IN <<c, c + 10, c + 20>>
TextureIdInRange(slots, textureId) == textureId >= 0 /\ textureId < Len(slots)
\* state.mTextureSlots[fragIn.textureId]->Sample(..) for the four pixels.
Shade(frag, slots) ==
    [p \in 0 .. 3 |-> Sample(slots[frag.textureId + 1],
                             frag.x + QuadPixelOffset(p).x,
                             frag.y + QuadPixelOffset(p).y)]
\* Color4b::FromFloats: clamp and quantize one channel to a byte.
FromFloats(c) == Min(255, Max(0, c))
\* colorByte[0..3] loaded as one 16-byte value: byte 4p + ch of pixel p.
PackQuad(quad) ==
    [k \in 0 .. 15 |-> IF k % 4 = 3 THEN 255
                       ELSE FromFloats(quad[k \div 4][(k % 4) + 1])]

(***************************************************************************)
(* Renderer::UpdateFrameBuffer, the body of the loop over the tiles.       *)
(***************************************************************************)
\* int maskShift = sId << 2 (MaskShiftNarrow: a variant that shifts by 1).
MaskShiftNarrow(sId) == sId * 2
MaskShift(sId) == sId * 4
QuadByte(p) == 4 * p
\* One of the four tests of the loop body: the colour sample sId of pixel p
\* of the quad holds afterwards.
UpdateStore(old, frag, quadResults, sId, p) ==
    IF GetBit(frag.coverageMask, MaskShift(sId) + p) # 0
    THEN <<quadResults[QuadByte(p)], quadResults[QuadByte(p) + 1],
           quadResults[QuadByte(p) + 2]>>
    ELSE old
\* for sId in 0 .. GetSampleCount() - 1: the four tests and SetPixel calls
\* (SetPixel(c, x, y, sId) stores c in sample sId of pixel (x, y)).
\* The stores of one fragment go to different samples, so the framebuffer
\* after the loop is given sample by sample.
UpdateFragment(fb, frag, quadResults) ==
    [fb EXCEPT !.sampleColor =
        [i \in DOMAIN @ |->
            LET ps == {p \in 0 .. 3 :
                         /\ InFrame(fb, frag.x + QuadPixelOffset(p).x,
                                    frag.y + QuadPixelOffset(p).y)
                         /\ PixelIndex(fb, frag.x + QuadPixelOffset(p).x,
                                       frag.y + QuadPixelOffset(p).y) = i}
            IN IF ps = {} THEN @[i]
               ELSE [sId \in DOMAIN @[i] |->
                        UpdateStore(@[i][sId], frag, quadResults, sId,
                                    CHOOSE p \in ps : TRUE)]]]
RECURSIVE UpdateTile(_, _, _, _)
\* for j in 0 .. fragmentBuf.Size() - 1, from fragment j on.
UpdateTile(fb, frags, results, j) ==
    IF j > Len(frags) THEN fb
    ELSE UpdateTile(UpdateFragment(fb, frags[j], results[j]), frags, results, j + 1)


(***************************************************************************)
(* Inputs: the meshes the host draws, the sizes it resizes to, the MSAA    *)
(* levels and the transforms it sets.  A vertex is a position in fixed     *)
(* point with a depth; vertex and texture ids are 0-based as in the code.  *)
(***************************************************************************)
Vertex(x, y, z) == [x |-> x, y |-> y, z |-> z]
\* T: a triangle over three columns of tiles that contains tile (0, 0).
\* R: left of the clip volume (clipped away).
MeshBigAndClipped ==
    [verts |-> <<Vertex(0, 0, 5), Vertex(0, 128, 5), Vertex(160, 0, 5),
                 Vertex(-96, 0, 5), Vertex(-96, 32, 5), Vertex(-64, 0, 5)>>,
     index |-> <<<<0, 1, 2>>, <<3, 4, 5>>>>,
     texIds |-> <<0, 0>>, textures |-> <<100>>]
\* A and B on the same vertices with two textures (worker 0), and a sliver
\* S over tiles 0 and 1 (worker 1), all at one depth.
MeshTwoWorkers ==
    [verts |-> <<Vertex(0, 0, 5), Vertex(0, 32, 5), Vertex(32, 0, 5),
                 Vertex(96, 0, 5)>>,
     index |-> <<<<0, 1, 2>>, <<0, 1, 2>>, <<0, 1, 3>>>>,
     texIds |-> <<0, 1, 0>>, textures |-> <<100, 200>>]
\* A near triangle, then a larger far one behind it.
MeshNearFar ==
    [verts |-> <<Vertex(0, 0, 3), Vertex(0, 32, 3), Vertex(32, 0, 3),
                 Vertex(0, 0, 7), Vertex(0, 64, 7), Vertex(64, 0, 7)>>,
     index |-> <<<<0, 1, 2>>, <<3, 4, 5>>>>,
     texIds |-> <<0, 1>>, textures |-> <<100, 200>>]
\* A triangle over pixels 6..7 of row 1: inside the 12-pixel viewport, in
\* the clipped part of tile 1 of a 6-pixel-wide framebuffer.
MeshRightOfSix ==
    [verts |-> <<Vertex(100, 16, 5), Vertex(100, 40, 5), Vertex(124, 16, 5)>>,
     index |-> <<<<0, 1, 2>>>>,
     texIds |-> <<0>>, textures |-> <<100>>]
\* A triangle over pixels 8..9 of row 1: in the third column of tiles of the
\* viewport, which a 6-pixel-wide framebuffer does not have.
MeshThirdTile ==
    [verts |-> <<Vertex(132, 16, 5), Vertex(132, 40, 5), Vertex(156, 16, 5)>>,
     index |-> <<<<0, 1, 2>>>>,
     texIds |-> <<0>>, textures |-> <<100>>]
\* A triangle whose texture id is past the end of the mesh's texture table.
MeshBadTexture ==
    [verts |-> <<Vertex(0, 0, 5), Vertex(0, 32, 5), Vertex(32, 0, 5)>>,
     index |-> <<<<0, 1, 2>>>>,
     texIds |-> <<1>>, textures |-> <<100>>]
Meshes ==
    <<MeshBigAndClipped, MeshTwoWorkers, MeshNearFar, MeshRightOfSix,
      MeshThirdTile, MeshBadTexture>>
InitialSize == Vector2i(12, 8)
Sizes == {Vector2i(6, 4), Vector2i(0, 4)}
MSAALevels == {1, 5}
Offsets == {Vector2i(32, 0)}
\* What an out-of-range texture slot may shade to: the read is past the end
\* of the slot table, so any colour may come back.
GarbageColors == {<<7, 7, 7>>, <<77, 77, 77>>}
\* Boundary calls (Resize, SetMSAAMode, SetTransform) per behaviour.
MaxConfigCalls == 1

VARIABLES
    renderStates,                \* RenderStates::Instance()
    mTileDim, mTiles,            \* the tile grid
    mpFrameBuffer,
    mProjectedVertexBuf,
    mpDistributedProjVertexBuf,  \* per core
    mpRasterTriangleBuf,         \* per core
    mFragmentBuf,
    mTiledShadingResultBuf,
    mesh,                        \* the argument of the running RenderMesh (index into Meshes, 0: none)
    pc,                          \* where RenderMesh stands
    pending,                     \* iterations of parallel_for loops forked and not completed
    binLoopI,                    \* per core: the binning loop's i
    stageLog,                    \* the stages this frame has entered
    tileWriters,                 \* per tile: the work units that wrote it this frame
    refAppenders,                \* per tile and list: the appends, <<worker, triangle>>
    visitLog,                    \* per tile: the references RasterizeTile visited, in order
    fsWritten,                   \* shading-result slots written this frame
    faults,                      \* out-of-range accesses and write clashes seen
    frameLog,                    \* the completed frames: mesh, render state, back buffer
    configCalls

vars == <<renderStates, mTileDim, mTiles, mpFrameBuffer, mProjectedVertexBuf,
          mpDistributedProjVertexBuf, mpRasterTriangleBuf, mFragmentBuf,
          mTiledShadingResultBuf, mesh, pc, pending, binLoopI, stageLog,
          tileWriters, refAppenders, visitLog, fsWritten, faults, frameLog,
          configCalls>>
rendererVars == <<renderStates, mTileDim, mTiles, mpFrameBuffer, mProjectedVertexBuf,
                  mpDistributedProjVertexBuf, mpRasterTriangleBuf, mFragmentBuf,
                  mTiledShadingResultBuf>>
ghostVars == <<stageLog, tileWriters, refAppenders, visitLog, fsWritten, faults, frameLog>>

TileIds == 0 .. Len(mTiles) - 1
\* Renderer::GetBackBuffer
GetBackBuffer == mpFrameBuffer.colorBuffer

(***************************************************************************)
(* Renderer::Initialize(12, 8) with the default settings, followed by the  *)
(* host's SetTransform for that viewport.                                  *)
(***************************************************************************)
Init ==
    /\ renderStates = [MultiSampleLevel |-> 0, HierarchicalRasterize |-> TRUE,
                       ModelViewProjMatrix |-> Vector2i(0, 0),
                       RasterMatrix |-> InitialSize,
                       TextureSlots |-> <<>>, FrameCount |-> 0]
    /\ mTileDim = Vector2i(TileDimOf(InitialSize.x), TileDimOf(InitialSize.y))
    /\ mTiles = BuildTiles(InitialSize.x, InitialSize.y)
    /\ mpFrameBuffer = FrameBufferInit(InitialSize.x, InitialSize.y, 0)
    /\ mProjectedVertexBuf = <<>>
    /\ mpDistributedProjVertexBuf = [c \in Cores |-> <<>>]
    /\ mpRasterTriangleBuf = [c \in Cores |-> <<>>]
    /\ mFragmentBuf = <<>>
    /\ mTiledShadingResultBuf = <<>>
    /\ mesh = 0
    /\ pc = "Idle"
    /\ pending = {}
    /\ binLoopI = [c \in Cores |-> 0]
    /\ stageLog = <<>>
    /\ tileWriters = [t \in 0 .. Len(BuildTiles(InitialSize.x, InitialSize.y)) - 1 |-> {}]
    /\ refAppenders = [t \in 0 .. Len(BuildTiles(InitialSize.x, InitialSize.y)) - 1 |->
                          [c \in Cores |-> <<>>]]
    /\ visitLog = [t \in 0 .. Len(BuildTiles(InitialSize.x, InitialSize.y)) - 1 |-> <<>>]
    /\ fsWritten = {}
    /\ faults = {}
    /\ frameLog = <<>>
    /\ configCalls = 0

(***************************************************************************)
(* Boundary calls.                                                         *)
(***************************************************************************)
\* The body of Renderer::Resize, under the MSAA level given.
ResizeTo(iScreenWidth, iScreenHeight, level) ==
    /\ mTileDim' = Vector2i(TileDimOf(iScreenWidth), TileDimOf(iScreenHeight))
    /\ mpFrameBuffer' = FrameBufferInit(iScreenWidth, iScreenHeight, level)
    /\ mTiles' = BuildTiles(iScreenWidth, iScreenHeight)
Resize(size) ==
    /\ pc = "Idle"
    /\ configCalls < MaxConfigCalls
    /\ configCalls' = configCalls + 1
    /\ ResizeTo(size.x, size.y, renderStates.MultiSampleLevel)
    /\ UNCHANGED <<renderStates, mProjectedVertexBuf, mpDistributedProjVertexBuf,
                   mpRasterTriangleBuf, mFragmentBuf, mTiledShadingResultBuf,
                   mesh, pc, pending, binLoopI, ghostVars>>
SetMSAAMode(sampleCountLog2) ==
    /\ pc = "Idle"
    /\ configCalls < MaxConfigCalls
    /\ configCalls' = configCalls + 1
    /\ renderStates' = [renderStates EXCEPT !.MultiSampleLevel = sampleCountLog2]
    /\ ResizeTo(mpFrameBuffer.width, mpFrameBuffer.height, sampleCountLog2)
    /\ UNCHANGED <<mProjectedVertexBuf, mpDistributedProjVertexBuf,
                   mpRasterTriangleBuf, mFragmentBuf, mTiledShadingResultBuf,
                   mesh, pc, pending, binLoopI, ghostVars>>
SetTransform(offset) ==
    /\ pc = "Idle"
    /\ configCalls < MaxConfigCalls
    /\ configCalls' = configCalls + 1
    /\ renderStates' = [renderStates EXCEPT !.ModelViewProjMatrix = offset]
    /\ UNCHANGED <<mTileDim, mTiles, mpFrameBuffer, mProjectedVertexBuf,
                   mpDistributedProjVertexBuf, mpRasterTriangleBuf, mFragmentBuf,
                   mTiledShadingResultBuf, mesh, pc, pending, binLoopI, ghostVars>>


(***************************************************************************)
(* RenderMesh.  A parallel_for forks one work unit per iteration and       *)
(* returns when all of them have completed; a unit is <<loop, iteration>>. *)
(***************************************************************************)
Units(loop, n) == {<<loop, i>> : i \in 0 .. n - 1}
\* parallel_for returns: every forked iteration has completed
\* (JoinedEarly: a variant that returns without waiting).
JoinedEarly(p) == TRUE
Joined(p) == p = {}
MeshArg == Meshes[mesh]
\* Array::Resize: the elements kept, new ones default-constructed.
ArrayResize(old, n, default) ==
    [k \in 1 .. n |-> IF k <= Len(old) THEN old[k] ELSE default]
DefaultVertex ==
    [projectedPos |-> Vertex(0, 0, 0), invW |-> 0, position |-> Vertex(0, 0, 0)]
ZeroQuad == [k \in 0 .. 15 |-> 0]
\* line 103: what RenderMesh makes of the framebuffer before anything else.
FrameStartBuffer(fb) == FrameBufferClear(fb)

RenderMesh(m) ==
    /\ pc = "Idle"
    /\ renderStates.FrameCount < MaxFrames
    /\ mesh' = m
    /\ mpFrameBuffer' = FrameStartBuffer(mpFrameBuffer)
    /\ renderStates' = [renderStates EXCEPT !.TextureSlots = Meshes[m].textures]
    /\ pc' = "Clear"
    /\ stageLog' = <<"Clear">>
    /\ tileWriters' = [t \in TileIds |-> {}]
    /\ refAppenders' = [t \in TileIds |-> [c \in Cores |-> <<>>]]
    /\ visitLog' = [t \in TileIds |-> <<>>]
    /\ fsWritten' = {}
    /\ faults' = {}
    /\ UNCHANGED <<mTileDim, mTiles, mProjectedVertexBuf, mpDistributedProjVertexBuf,
                   mpRasterTriangleBuf, mFragmentBuf, mTiledShadingResultBuf,
                   pending, binLoopI, frameLog, configCalls>>

\* Renderer::VertexProcessing: resize the buffer, fork the loop.
VertexProcessing ==
    /\ pc = "Clear"
    /\ mProjectedVertexBuf' =
          ArrayResize(mProjectedVertexBuf, Len(MeshArg.verts), DefaultVertex)
    /\ pc' = "VS"
    /\ pending' = pending \cup Units("VS", Len(MeshArg.verts))
    /\ stageLog' = Append(stageLog, "VS")
    /\ UNCHANGED <<renderStates, mTileDim, mTiles, mpFrameBuffer,
                   mpDistributedProjVertexBuf, mpRasterTriangleBuf, mFragmentBuf,
                   mTiledShadingResultBuf, mesh, binLoopI, tileWriters, refAppenders,
                   visitLog, fsWritten, faults, frameLog, configCalls>>
VSUnit(i) ==
    /\ <<"VS", i>> \in pending
    /\ pending' = pending \ {<<"VS", i>>}
    /\ mProjectedVertexBuf' =
          [mProjectedVertexBuf EXCEPT ![i + 1] =
              Execute(MeshArg.verts[i + 1], renderStates.ModelViewProjMatrix)]
    /\ UNCHANGED <<renderStates, mTileDim, mTiles, mpFrameBuffer,
                   mpDistributedProjVertexBuf, mpRasterTriangleBuf, mFragmentBuf,
                   mTiledShadingResultBuf, mesh, pc, binLoopI, ghostVars, configCalls>>

\* Renderer::Clipping, first loop: the per-core buffers are cleared.
VSJoin ==
    /\ pc = "VS"
    /\ Joined(pending)
    /\ pc' = "ClipClear"
    /\ pending' = pending \cup Units("ClipClear", NumCores)
    /\ stageLog' = Append(stageLog, "Clip")
    /\ UNCHANGED <<rendererVars, mesh, binLoopI, tileWriters, refAppenders,
                   visitLog, fsWritten, faults, frameLog, configCalls>>
ClipClearUnit(coreId) ==
    /\ <<"ClipClear", coreId>> \in pending
    /\ pending' = pending \ {<<"ClipClear", coreId>>}
    /\ mpDistributedProjVertexBuf' = [mpDistributedProjVertexBuf EXCEPT ![coreId] = <<>>]
    /\ mpRasterTriangleBuf' = [mpRasterTriangleBuf EXCEPT ![coreId] = <<>>]
    /\ UNCHANGED <<renderStates, mTileDim, mTiles, mpFrameBuffer, mProjectedVertexBuf,
                   mFragmentBuf, mTiledShadingResultBuf, mesh, pc, binLoopI,
                   ghostVars, configCalls>>
\* Clipper::Clip runs between the two loops of Clipping.
ClipClearJoin ==
    /\ pc = "ClipClear"
    /\ Joined(pending)
    /\ mpRasterTriangleBuf' =
          [c \in Cores |->
              mpRasterTriangleBuf[c] \o
              ClipRange(mProjectedVertexBuf, MeshArg.index,
                        MeshArg.texIds, renderStates.RasterMatrix,
                        TrianglesOfCore(Len(MeshArg.index), c))]
    /\ mpDistributedProjVertexBuf' =
          [c \in Cores |->
              mpDistributedProjVertexBuf[c] \o
              ClipVertices(mProjectedVertexBuf, c, Len(MeshArg.index))]
    /\ pc' = "ClipInvW"
    /\ pending' = pending \cup Units("ClipInvW", NumCores)
    /\ UNCHANGED <<renderStates, mTileDim, mTiles, mpFrameBuffer, mProjectedVertexBuf,
                   mFragmentBuf, mTiledShadingResultBuf, mesh, binLoopI,
                   ghostVars, configCalls>>
\* invW = 1 / w and z *= invW, with w = 1.
ClipInvWUnit(coreId) ==
    /\ <<"ClipInvW", coreId>> \in pending
    /\ pending' = pending \ {<<"ClipInvW", coreId>>}
    /\ mpDistributedProjVertexBuf' =
          [mpDistributedProjVertexBuf EXCEPT ![coreId] =
              [k \in DOMAIN @ |-> [@[k] EXCEPT !.invW = 1]]]
    /\ UNCHANGED <<renderStates, mTileDim, mTiles, mpFrameBuffer, mProjectedVertexBuf,
                   mpRasterTriangleBuf, mFragmentBuf, mTiledShadingResultBuf, mesh, pc,
                   binLoopI, ghostVars, configCalls>>

\* Renderer::TiledRasterization, first loop: each tile's lists are cleared.
ClipInvWJoin ==
    /\ pc = "ClipInvW"
    /\ Joined(pending)
    /\ pc' = "TileClear"
    /\ pending' = pending \cup Units("TileClear", Len(mTiles))
    /\ stageLog' = Append(stageLog, "Bin")
    /\ UNCHANGED <<rendererVars, mesh, binLoopI, tileWriters, refAppenders,
                   visitLog, fsWritten, faults, frameLog, configCalls>>
TileClearUnit(i) ==
    /\ <<"TileClear", i>> \in pending
    /\ pending' = pending \ {<<"TileClear", i>>}
    /\ mTiles' = [mTiles EXCEPT ![i + 1].triangleRefs = [c \in Cores |-> <<>>],
                                ![i + 1].fragmentBuf = <<>>]
    /\ tileWriters' = [tileWriters EXCEPT ![i] = @ \cup {<<"TileClear", i>>}]
    /\ UNCHANGED <<renderStates, mTileDim, mpFrameBuffer, mProjectedVertexBuf,
                   mpDistributedProjVertexBuf, mpRasterTriangleBuf, mFragmentBuf,
                   mTiledShadingResultBuf, mesh, pc, binLoopI, stageLog, refAppenders,
                   visitLog, fsWritten, faults, frameLog, configCalls>>

\* The binning loop over the cores; one step is one iteration of a core's
\* loop over its raster triangles.
TileClearJoin ==
    /\ pc = "TileClear"
    /\ Joined(pending)
    /\ pc' = "Bin"
    /\ pending' = pending \cup Units("Bin", NumCores)
    /\ binLoopI' = [c \in Cores |-> 0]
    /\ UNCHANGED <<rendererVars, mesh, ghostVars, configCalls>>
BinStep(coreId) ==
    /\ <<"Bin", coreId>> \in pending
    /\ LET n == Len(mpRasterTriangleBuf[coreId])
           i == binLoopI[coreId]
       IN IF i >= n
          THEN /\ pending' = pending \ {<<"Bin", coreId>>}
               /\ UNCHANGED <<mTiles, binLoopI, tileWriters, refAppenders, faults>>
          ELSE LET tri == mpRasterTriangleBuf[coreId][i + 1]
                   written == {b.idx : b \in BinWrites(tri, i, mTileDim)} \cap TileIds
               IN /\ mTiles' = BinTriangle(mTiles, tri, i, coreId, mTileDim)
                  /\ binLoopI' = [binLoopI EXCEPT ![coreId] = i + 1]
                  /\ pending' = IF i + 1 >= n THEN pending \ {<<"Bin", coreId>>}
                                ELSE pending
                  /\ tileWriters' = [t \in DOMAIN tileWriters |->
                                        IF t \in written
                                        THEN tileWriters[t] \cup {<<"Bin", coreId>>}
                                        ELSE tileWriters[t]]
                  /\ refAppenders' = [t \in DOMAIN refAppenders |->
                                         IF t \in written
                                         THEN [refAppenders[t] EXCEPT ![RefListOf(coreId)] =
                                                  Append(@, <<coreId, i>>)]
                                         ELSE refAppenders[t]]
                  /\ faults' = IF BinOutOfRange(mTiles, tri, i, mTileDim)
                               THEN faults \cup {"tile index out of range"}
                               ELSE faults
    /\ UNCHANGED <<renderStates, mTileDim, mpFrameBuffer, mProjectedVertexBuf,
                   mpDistributedProjVertexBuf, mpRasterTriangleBuf, mFragmentBuf,
                   mTiledShadingResultBuf, mesh, pc, stageLog, visitLog, fsWritten,
                   frameLog, configCalls>>


\* The rasterization loop over the tiles.
BinJoin ==
    /\ pc = "Bin"
    /\ Joined(pending)
    /\ pc' = "Raster"
    /\ pending' = pending \cup Units("Raster", Len(mTiles))
    /\ stageLog' = Append(stageLog, "Raster")
    /\ UNCHANGED <<rendererVars, mesh, binLoopI, tileWriters, refAppenders,
                   visitLog, fsWritten, faults, frameLog, configCalls>>
\* The tile iteration i of the loop rasterizes: RasterizeTile(mTiles[i])
\* (RasterTileFirst: a variant where every iteration takes the first tile).
RasterTileFirst(i) == 0
RasterTileOf(i) == i
RasterUnit(i) ==
    /\ <<"Raster", i>> \in pending
    /\ pending' = pending \ {<<"Raster", i>>}
    /\ LET t == RasterTileOf(i)
           tile == mTiles[t + 1]
           st == RasterizeTile(tile, mpFrameBuffer, mpRasterTriangleBuf,
                               renderStates.HierarchicalRasterize)
       IN /\ mTiles' = [mTiles EXCEPT ![t + 1].fragmentBuf = st.frags]
          /\ mpFrameBuffer' = [mpFrameBuffer EXCEPT !.sampleDepth = st.depth]
          /\ visitLog' = [visitLog EXCEPT ![t] =
                             @ \o [j \in 1 .. Len(VisitOrder(tile, 0)) |->
                                      <<VisitOrder(tile, 0)[j].coreId,
                                        VisitOrder(tile, 0)[j].ref.triId>>]]
          /\ tileWriters' = [tileWriters EXCEPT ![t] = @ \cup {<<"Raster", i>>}]
    /\ UNCHANGED <<renderStates, mTileDim, mProjectedVertexBuf,
                   mpDistributedProjVertexBuf, mpRasterTriangleBuf, mFragmentBuf,
                   mTiledShadingResultBuf, mesh, pc, binLoopI, stageLog, refAppenders,
                   fsWritten, faults, frameLog, configCalls>>

\* lines 238-245: the flat fragment list and the shading-result arrays.
RECURSIVE ConcatFragments(_, _)
ConcatFragments(tiles, i) ==
    IF i > Len(tiles) THEN <<>>
    ELSE tiles[i].fragmentBuf \o ConcatFragments(tiles, i + 1)
\* line 242: the size the shading-result array of a tile is given
\* (ResultSizeShort: a variant one entry short).
ResultSizeShort(fragmentCount) == fragmentCount - 1
ResultSize(fragmentCount) == fragmentCount
RasterJoin ==
    /\ pc = "Raster"
    /\ Joined(pending)
    /\ mFragmentBuf' = ConcatFragments(mTiles, 1)
    /\ mTiledShadingResultBuf' =
          [i \in 1 .. Len(mTiles) |->
              ArrayResize(IF i <= Len(mTiledShadingResultBuf)
                          THEN mTiledShadingResultBuf[i] ELSE <<>>,
                          ResultSize(Len(mTiles[i].fragmentBuf)), ZeroQuad)]
    /\ pc' = "FS"
    /\ pending' = pending \cup Units("FS", Len(ConcatFragments(mTiles, 1)))
    /\ stageLog' = Append(stageLog, "FS")
    /\ UNCHANGED <<renderStates, mTileDim, mTiles, mpFrameBuffer, mProjectedVertexBuf,
                   mpDistributedProjVertexBuf, mpRasterTriangleBuf, mesh, binLoopI,
                   tileWriters, refAppenders, visitLog, fsWritten, faults, frameLog,
                   configCalls>>

\* Renderer::FragmentProcessing, one iteration.  The store is
\* mTiledShadingResultBuf[frag.tileId][frag.intraTileIdx]; a store outside
\* the array, or to a slot another iteration has written, is a fault.
FSStore(frag, quadResults) ==
    LET inRange == /\ frag.tileId + 1 \in DOMAIN mTiledShadingResultBuf
                   /\ frag.intraTileIdx + 1 \in
                         DOMAIN mTiledShadingResultBuf[frag.tileId + 1]
        slot == <<frag.tileId, frag.intraTileIdx>>
    IN /\ mTiledShadingResultBuf' =
             IF inRange
             THEN [mTiledShadingResultBuf EXCEPT
                      ![frag.tileId + 1][frag.intraTileIdx + 1] = quadResults]
             ELSE mTiledShadingResultBuf
       /\ fsWritten' = fsWritten \cup {slot}
       /\ faults' = faults
                    \cup (IF inRange THEN {} ELSE {"shading result out of range"})
                    \cup (IF slot \in fsWritten THEN {"shading result written twice"}
                          ELSE {})
                    \cup (IF TextureIdInRange(renderStates.TextureSlots, frag.textureId)
                          THEN {} ELSE {"texture slot out of range"})
FSUnit(i) ==
    /\ <<"FS", i>> \in pending
    /\ LET frag == mFragmentBuf[i + 1]
       IN IF TextureIdInRange(renderStates.TextureSlots, frag.textureId)
          THEN /\ FSStore(frag, PackQuad(Shade(frag, renderStates.TextureSlots)))
               /\ pending' = pending \ {<<"FS", i>>}
               /\ pc' = pc
          ELSE \* mTextureSlots[textureId] reads past the table: the pointer
               \* read is arbitrary, the call through it shades to anything
               \* or ends the process.
               \/ \E g \in GarbageColors :
                     /\ FSStore(frag, PackQuad([p \in 0 .. 3 |-> g]))
                     /\ pending' = pending \ {<<"FS", i>>}
                     /\ pc' = pc
               \/ /\ pc' = "Aborted"
                  /\ pending' = {}
                  /\ faults' = faults \cup {"texture slot out of range"}
                  /\ UNCHANGED <<mTiledShadingResultBuf, fsWritten>>
    /\ UNCHANGED <<renderStates, mTileDim, mTiles, mpFrameBuffer, mProjectedVertexBuf,
                   mpDistributedProjVertexBuf, mpRasterTriangleBuf, mFragmentBuf, mesh,
                   binLoopI, stageLog, tileWriters, refAppenders, visitLog, frameLog,
                   configCalls>>

\* Renderer::UpdateFrameBuffer: the loop over the tiles, then Resolve.
FSJoin ==
    /\ pc = "FS"
    /\ Joined(pending)
    /\ pc' = "Update"
    /\ pending' = pending \cup Units("Update", Len(mTiledShadingResultBuf))
    /\ stageLog' = Append(stageLog, "Update")
    /\ UNCHANGED <<rendererVars, mesh, binLoopI, tileWriters, refAppenders,
                   visitLog, fsWritten, faults, frameLog, configCalls>>
UpdateUnit(i) ==
    /\ <<"Update", i>> \in pending
    /\ pending' = pending \ {<<"Update", i>>}
    /\ mpFrameBuffer' = UpdateTile(mpFrameBuffer, mTiles[i + 1].fragmentBuf,
                                   mTiledShadingResultBuf[i + 1], 1)
    /\ UNCHANGED <<renderStates, mTileDim, mTiles, mProjectedVertexBuf,
                   mpDistributedProjVertexBuf, mpRasterTriangleBuf, mFragmentBuf,
                   mTiledShadingResultBuf, mesh, pc, binLoopI, ghostVars, configCalls>>
UpdateJoin ==
    /\ pc = "Update"
    /\ Joined(pending)
    /\ pc' = "Resolve"
    /\ stageLog' = Append(stageLog, "Resolve")
    /\ UNCHANGED <<rendererVars, mesh, pending, binLoopI, tileWriters, refAppenders,
                   visitLog, fsWritten, faults, frameLog, configCalls>>
\* The render state a frame was drawn under, FrameCount aside.
RenderConfig ==
    [MultiSampleLevel |-> renderStates.MultiSampleLevel,
     HierarchicalRasterize |-> renderStates.HierarchicalRasterize,
     ModelViewProjMatrix |-> renderStates.ModelViewProjMatrix,
     RasterMatrix |-> renderStates.RasterMatrix,
     width |-> mpFrameBuffer.width, height |-> mpFrameBuffer.height]
\* mpFrameBuffer->Resolve(), then RenderMesh counts the frame and returns
\* (mWriteFrames is false: no frame is written to a file).
Resolve ==
    /\ pc = "Resolve"
    /\ mpFrameBuffer' = FrameBufferResolve(mpFrameBuffer)
    /\ renderStates' = [renderStates EXCEPT !.FrameCount = @ + 1]
    /\ pc' = "Idle"
    /\ frameLog' = Append(frameLog,
                          [mesh |-> mesh, config |-> RenderConfig,
                           backBuffer |-> FrameBufferResolve(mpFrameBuffer).colorBuffer])
    /\ UNCHANGED <<mTileDim, mTiles, mProjectedVertexBuf, mpDistributedProjVertexBuf,
                   mpRasterTriangleBuf, mFragmentBuf, mTiledShadingResultBuf, mesh,
                   pending, binLoopI, stageLog, tileWriters, refAppenders, visitLog,
                   fsWritten, faults, configCalls>>

Next ==
    \/ \E size \in Sizes : Resize(size)
    \/ \E level \in MSAALevels : SetMSAAMode(level)
    \/ \E offset \in Offsets : SetTransform(offset)
    \/ \E m \in DOMAIN Meshes : RenderMesh(m)
    \/ VertexProcessing
    \/ \E u \in pending : u[1] = "VS" /\ VSUnit(u[2])
    \/ VSJoin
    \/ \E c \in Cores : ClipClearUnit(c)
    \/ ClipClearJoin
    \/ \E c \in Cores : ClipInvWUnit(c)
    \/ ClipInvWJoin
    \/ \E t \in TileIds : TileClearUnit(t)
    \/ TileClearJoin
    \/ \E c \in Cores : BinStep(c)
    \/ BinJoin
    \/ \E t \in TileIds : RasterUnit(t)
    \/ RasterJoin
    \/ \E u \in pending : u[1] = "FS" /\ FSUnit(u[2])
    \/ FSJoin
    \/ \E u \in pending : u[1] = "Update" /\ UpdateUnit(u[2])
    \/ UpdateJoin
    \/ Resolve

Spec == Init /\ [][Next]_vars


(***************************************************************************)
(* Properties.                                                             *)
(***************************************************************************)
StageOrder == <<"Clear", "VS", "Clip", "Bin", "Raster", "FS", "Update", "Resolve">>
IsPrefix(s, t) == Len(s) <= Len(t) /\ \A k \in 1 .. Len(s) : s[k] = t[k]
\* The stage a parallel loop belongs to.
StageOfLoop(loop) ==
    CASE loop \in {"ClipClear", "ClipInvW"} -> "Clip"
      [] loop = "TileClear" -> "Bin"
      [] OTHER -> loop
\* The states in which the tiles hold the current frame's binning.
AfterBinning == pc \in {"Raster", "FS", "Update", "Resolve"}

\* C1: in every RenderMesh call the stages are entered in the order Clear,
\* VS, Clip, Bin, Raster, FS, Update, Resolve, a call that returns has run
\* them all, and every work unit that has not completed belongs to the loop
\* RenderMesh is in: no unit of a stage runs until all units of the stage
\* before have completed.
C1_StageOrderAndBarriers ==
    /\ IsPrefix(stageLog, StageOrder)
    /\ \A u \in pending : u[1] = pc /\ StageOfLoop(u[1]) = stageLog[Len(stageLog)]
    /\ pc = "Idle" /\ renderStates.FrameCount > 0 => stageLog = StageOrder
\* A frame with triangles of two workers has run to its end.
C1_FrameDone ==
    /\ pc = "Idle"
    /\ stageLog = StageOrder
    /\ Len(mFragmentBuf) > 1
    /\ \A c \in {0, 1} : mpRasterTriangleBuf[c] # <<>>

LexLess(a, b) == a[1] < b[1] \/ (a[1] = b[1] /\ a[2] < b[2])
RefCount(tile) == SeqSum([c \in 1 .. NumCores |-> Len(tile.triangleRefs[c - 1])])
\* C2: in each tile the references are visited by increasing worker and,
\* within a worker, by increasing triangle index (the order the clipper
\* emitted them), and a rasterized tile has visited all its references.
C2_SubmissionOrder ==
    \A t \in DOMAIN visitLog :
        /\ \A a, b \in DOMAIN visitLog[t] :
              a < b => LexLess(visitLog[t][a], visitLog[t][b])
        /\ AfterBinning /\ <<"Raster", t>> \in tileWriters[t]
              => Len(visitLog[t]) = RefCount(mTiles[t + 1])
\* A tile was visited for two triangles of one worker and one of another.
C2_TwoWorkersVisited ==
    \E t \in DOMAIN visitLog :
        /\ Len(visitLog[t]) >= 3
        /\ visitLog[t][1][1] = visitLog[t][2][1]
        /\ visitLog[t][1][1] # visitLog[t][3][1]

\* C3 (as stated): two completed frames of the same mesh under the same
\* render state have the same back buffer.
C3_SameFrameSameBuffer ==
    \A a, b \in DOMAIN frameLog :
        frameLog[a].mesh = frameLog[b].mesh /\ frameLog[a].config = frameLog[b].config
            => frameLog[a].backBuffer = frameLog[b].backBuffer

WritersOf(t, loop) == {w \in tileWriters[t] : w[1] = loop}
\* C4 (as stated): in the binning loop and in the rasterization loop each
\* tile is written by at most one work unit.
C4_OneWriterPerStage ==
    \A t \in DOMAIN tileWriters :
        /\ Cardinality(WritersOf(t, "Bin")) <= 1
        /\ Cardinality(WritersOf(t, "Raster")) <= 1
\* C4 (amended): in the rasterization loop tile t is written by iteration t
\* and by no other, every tile has been written by its iteration when the
\* loop has joined, the writers of the binning loop are binning workers (any
\* number of them per tile), and no unit of the binning stage is running
\* once an iteration of the rasterization loop has written.
C4_RasterOwnsTile ==
    \A t \in DOMAIN tileWriters :
        /\ WritersOf(t, "Raster") \subseteq {<<"Raster", t>>}
        /\ pc \in {"FS", "Update", "Resolve"} => <<"Raster", t>> \in tileWriters[t]
        /\ \A w \in WritersOf(t, "Bin") : w[2] \in Cores
        /\ WritersOf(t, "Raster") # {}
              => \A u \in pending : u[1] \notin {"TileClear", "Bin"}
\* A tile was written by two binning workers and then rasterized.
C4_TwoBinWriters ==
    \E t \in DOMAIN tileWriters :
        {<<"Bin", 0>>, <<"Bin", 1>>, <<"Raster", t>>} \subseteq tileWriters[t]

\* C5: every append to list triangleRefs[k] of a tile is made by worker k,
\* and from binning to the end of the frame each list holds exactly what
\* was appended to it: rasterization leaves the lists as binning made them.
C5_OwnList ==
    \A t \in DOMAIN refAppenders : \A l \in Cores :
        /\ \A k \in DOMAIN refAppenders[t][l] : refAppenders[t][l][k][1] = l
        /\ pc = "Bin" \/ AfterBinning
              => [k \in DOMAIN mTiles[t + 1].triangleRefs[l] |->
                     mTiles[t + 1].triangleRefs[l][k].triId]
                 = [k \in DOMAIN refAppenders[t][l] |-> refAppenders[t][l][k][2]]
\* Rasterization runs on a tile both of whose lists were appended to.
C5_BothListsFilled ==
    /\ pc = "Raster"
    /\ \E t \in DOMAIN refAppenders :
          /\ refAppenders[t][0] # <<>> /\ refAppenders[t][1] # <<>>
          /\ <<"Raster", t>> \in tileWriters[t]

FSFaults == {"shading result out of range", "shading result written twice"}
\* C6: after rasterization the shading-result array of every tile has as
\* many entries as the tile has fragments, fragment j of tile t carries
\* tileId t and intraTileIdx j, no store of the fragment-shader pass is out
\* of bounds or hits a slot written before, and the pass writes every slot.
C6_DenseSlots ==
    /\ faults \cap FSFaults = {}
    /\ pc \in {"FS", "Update", "Resolve"} =>
          /\ Len(mTiledShadingResultBuf) = Len(mTiles)
          /\ \A i \in DOMAIN mTiles :
                /\ Len(mTiledShadingResultBuf[i]) = Len(mTiles[i].fragmentBuf)
                /\ \A j \in DOMAIN mTiles[i].fragmentBuf :
                      /\ mTiles[i].fragmentBuf[j].intraTileIdx = j - 1
                      /\ mTiles[i].fragmentBuf[j].tileId = i - 1
          /\ pc # "FS" =>
                fsWritten = UNION {{<<i - 1, j - 1>> : j \in DOMAIN mTiles[i].fragmentBuf} :
                                      i \in DOMAIN mTiles}
\* The fragment-shader pass has written five slots, three of them of one tile.
C6_SlotsWritten ==
    /\ pc = "Update"
    /\ Cardinality(fsWritten) >= 5
    /\ \E i \in DOMAIN mTiles : Len(mTiles[i].fragmentBuf) >= 3

\* The fragments of tile i (1-based) whose quad holds pixel (x, y) and whose
\* coverage bit s * 4 + p is set for that pixel p of the quad.
CoveringFrags(i, x, y, s) ==
    {j \in DOMAIN mTiles[i].fragmentBuf :
        LET f == mTiles[i].fragmentBuf[j]
        IN /\ x - f.x \in 0 .. 1
           /\ y - f.y \in 0 .. 1
           /\ GetBit(f.coverageMask, s * 4 + (x - f.x) + 2 * (y - f.y)) # 0}
SetMax(S) == CHOOSE m \in S : \A n \in S : n <= m
\* The colour the shading result of fragment j of tile i holds for (x, y).
ShadedColor(i, j, x, y) ==
    LET f == mTiles[i].fragmentBuf[j]
        p == (x - f.x) + 2 * (y - f.y)
        r == mTiledShadingResultBuf[i][j]
    IN <<r[4 * p], r[4 * p + 1], r[4 * p + 2]>>
\* C7: when the update loop has joined, every sample s of every pixel holds
\* the shaded colour, for that pixel, of the last fragment in its tile's
\* append order whose coverage bit s * 4 + p is set for it, and the clear
\* colour if no fragment has that bit set.
C7_UpdateStores ==
    pc = "Resolve" =>
        \A x \in 0 .. mpFrameBuffer.width - 1, y \in 0 .. mpFrameBuffer.height - 1 :
            \A s \in 0 .. mpFrameBuffer.sampleCount - 1 :
                LET stored == mpFrameBuffer.sampleColor[PixelIndex(mpFrameBuffer, x, y)][s]
                IN /\ (\A i \in DOMAIN mTiles : CoveringFrags(i, x, y, s) = {})
                         => stored = ClearColor
                   /\ \A i \in DOMAIN mTiles :
                         CoveringFrags(i, x, y, s) # {}
                            => stored = ShadedColor(i, SetMax(CoveringFrags(i, x, y, s)), x, y)
\* With two samples per pixel, a sample was covered by two fragments, and a
\* pixel has one sample covered and the other not.
C7_Overwritten ==
    /\ pc = "Resolve"
    /\ mpFrameBuffer.sampleCount = 2
    /\ \E i \in DOMAIN mTiles :
          \E x \in 0 .. mpFrameBuffer.width - 1, y \in 0 .. mpFrameBuffer.height - 1 :
             /\ Cardinality(CoveringFrags(i, x, y, 1)) >= 2
             /\ \E x2 \in {x, x + 1} : /\ x2 < mpFrameBuffer.width
                                       /\ CoveringFrags(i, x2, y, 0) = {}
                                       /\ CoveringFrags(i, x2, y, 1) # {}

\* C8 (as stated): no boundary call leaves the renderer with an MSAA level
\* outside 0..4 or with a framebuffer of size zero.
C8_ConfigValid ==
    /\ renderStates.MultiSampleLevel \in 0 .. 4
    /\ mpFrameBuffer.width > 0
    /\ mpFrameBuffer.height > 0

\* C9 (as stated): no fragment is shaded through a texture id outside the
\* slot table, and no frame ends in such an access.
C9_TextureIdClamped ==
    /\ "texture slot out of range" \notin faults
    /\ pc # "Aborted"

\* The bounding box of the triangle lies outside [0, W) x [0, H), in fixed
\* point.
BBoxOutside(tri, fb) ==
    \/ Min3(tri.v0.x, tri.v1.x, tri.v2.x) >= fb.width * SubPixel
    \/ Max3(tri.v0.x, tri.v1.x, tri.v2.x) < 0
    \/ Min3(tri.v0.y, tri.v1.y, tri.v2.y) >= fb.height * SubPixel
    \/ Max3(tri.v0.y, tri.v1.y, tri.v2.y) < 0
TriangleOf(frag) == mpRasterTriangleBuf[frag.coreId][frag.triId + 1]
\* C10: every tile index the binner writes is an index of mTiles, no
\* fragment of any tile comes from a triangle whose bounding box is outside
\* the framebuffer, and a frame all of whose raster triangles are outside
\* leaves every sample at the clear colour.
C10_OutsideNoFragments ==
    /\ "tile index out of range" \notin faults
    /\ AfterBinning =>
          \A i \in DOMAIN mTiles : \A j \in DOMAIN mTiles[i].fragmentBuf :
              ~BBoxOutside(TriangleOf(mTiles[i].fragmentBuf[j]), mpFrameBuffer)
    /\ /\ pc = "Resolve"
       /\ \A c \in Cores : \A k \in DOMAIN mpRasterTriangleBuf[c] :
             BBoxOutside(mpRasterTriangleBuf[c][k], mpFrameBuffer)
       => \A i \in DOMAIN mpFrameBuffer.sampleColor :
             \A s \in DOMAIN mpFrameBuffer.sampleColor[i] :
                mpFrameBuffer.sampleColor[i][s] = ClearColor
\* A frame was drawn in which a triangle outside the framebuffer was binned
\* to a tile.
C10_OutsideBinned ==
    /\ pc = "Resolve"
    /\ mpFrameBuffer.width > 0
    /\ \E c \in Cores : \E k \in DOMAIN mpRasterTriangleBuf[c] :
          /\ BBoxOutside(mpRasterTriangleBuf[c][k], mpFrameBuffer)
          /\ \E i \in DOMAIN mTiles : \E r \in DOMAIN mTiles[i].triangleRefs[c] :
                mTiles[i].triangleRefs[c][r].triId = k - 1


\* What a reference says: triangle index, big flag, accept bits.
RefView(r) == <<r.triId, r.big, r.acceptEdge0, r.acceptEdge1, r.acceptEdge2>>
\* The corner of tile (x, y) with corner code c, in fixed point.
CornerPoint(x, y, c) ==
    Vector2i((x + (c % 2)) * TileSize * SubPixel, (y + (c \div 2)) * TileSize * SubPixel)
\* The references tile (x, y) is to get for triangle i of a worker: none
\* outside the clamped box; in a box of at most 2 x 2 tiles one with
\* big = false and no accept bits; in a larger box none if an edge function
\* is negative at its reject corner, else one with big = true and accept
\* bit e = (edge function e at its accept corner >= 0).
ExpectedRefs(tri, i, x, y, dim) ==
    LET minX == BinMinX(tri)   maxX == BinMaxX(tri, dim)
        minY == BinMinY(tri)   maxY == BinMaxY(tri, dim)
    IN IF ~(x \in minX .. maxX /\ y \in minY .. maxY) THEN {}
       ELSE IF maxX - minX <= 1 /\ maxY - minY <= 1
            THEN {<<i, FALSE, FALSE, FALSE, FALSE>>}
            ELSE IF \/ EdgeFunc0(tri, CornerPoint(x, y, tri.rejectCorner0)) < 0
                    \/ EdgeFunc1(tri, CornerPoint(x, y, tri.rejectCorner1)) < 0
                    \/ EdgeFunc2(tri, CornerPoint(x, y, tri.rejectCorner2)) < 0
                 THEN {}
                 ELSE {<<i, TRUE,
                         EdgeFunc0(tri, CornerPoint(x, y, tri.acceptCorner0)) >= 0,
                         EdgeFunc1(tri, CornerPoint(x, y, tri.acceptCorner1)) >= 0,
                         EdgeFunc2(tri, CornerPoint(x, y, tri.acceptCorner2)) >= 0>>}
\* Tile t (1-based index into mTiles) as tile coordinates.
TileX(t) == (t - 1) % mTileDim.x
TileY(t) == (t - 1) \div mTileDim.x
\* C11: after binning, list c of every tile holds, for each raster triangle
\* of worker c, exactly the reference the two paths of the binner are to
\* give it (small box: big = false, no accept bits, every tile of the box;
\* larger box: skipped on a negative reject corner, else big = true with
\* the accept bits of the accept corners), and nothing else.
C11_BinnerPaths ==
    AfterBinning =>
        \A t \in DOMAIN mTiles : \A c \in Cores :
            LET list == mTiles[t].triangleRefs[c]
                expected == UNION {ExpectedRefs(mpRasterTriangleBuf[c][k], k - 1,
                                                TileX(t), TileY(t), mTileDim) :
                                      k \in DOMAIN mpRasterTriangleBuf[c]}
            IN /\ {RefView(list[k]) : k \in DOMAIN list} = expected
               /\ Len(list) = Cardinality(expected)
\* A triangle on the big path was added to one tile of its box with accept
\* bits and skipped in another.
C11_BigAddedAndSkipped ==
    /\ AfterBinning
    /\ \E c \in Cores : \E k \in DOMAIN mpRasterTriangleBuf[c] :
          /\ \E t \in DOMAIN mTiles : \E r \in DOMAIN mTiles[t].triangleRefs[c] :
                /\ mTiles[t].triangleRefs[c][r].triId = k - 1
                /\ mTiles[t].triangleRefs[c][r].big
                /\ mTiles[t].triangleRefs[c][r].acceptEdge0
          /\ \E t \in DOMAIN mTiles :
                /\ TileX(t) \in BinMinX(mpRasterTriangleBuf[c][k]) ..
                                BinMaxX(mpRasterTriangleBuf[c][k], mTileDim)
                /\ TileY(t) \in BinMinY(mpRasterTriangleBuf[c][k]) ..
                                BinMaxY(mpRasterTriangleBuf[c][k], mTileDim)
                /\ \A r \in DOMAIN mTiles[t].triangleRefs[c] :
                      mTiles[t].triangleRefs[c][r].triId # k - 1

\* The sample positions of the pixels of a tile, in fixed point (maxCoord is
\* one past the tile's last pixel).
SamplePointsOf(tile, n) ==
    {SamplePoint(px, py, n, s) : px \in tile.minCoord.x .. tile.maxCoord.x - 1,
                                 py \in tile.minCoord.y .. tile.maxCoord.y - 1,
                                 s \in 0 .. n - 1}
BigPathTile(tri, x, y, dim) ==
    /\ ~BinIsSmall(tri, dim)
    /\ x >= BinMinX(tri) /\ x <= BinMaxX(tri, dim)
    /\ y >= BinMinY(tri) /\ y <= BinMaxY(tri, dim)
=============================================================================
